---- MODULE Spec2Model ----
(***************************************************************************)
(* A model of the forecasting scripts of debot:                            *)
(*   scripts/random_forest.py          feature builder, trainer, predictor *)
(*   scripts/predict_random_forest.py  batch driver of random_forest       *)
(*   scripts/lstm.py                   recurrent-network CLI               *)
(*                                                                         *)
(* Spec       one invocation of a random-forest script, row by row.        *)
(* SpecSeq    training and prediction runs against the model store, one    *)
(*            run at a time.                                               *)
(* SpecConc   the same runs interleaved step by step.                      *)
(* SpecFail   runs one at a time, a training run may die between its two   *)
(*            writes.                                                      *)
(* SpecLstm   one invocation of lstm.py.                                   *)
(*                                                                         *)
(* Cells of a frame are exact fractions <<n, d>> with d >= 1; NaN is       *)
(* <<0, 0>>.  Row positions are 0-based as in pandas (row i of a frame is  *)
(* element i + 1 of the sequence); every row carries its timestamp ts.     *)
(* The fitted regressor and the fitted scaler are library objects: the     *)
(* result of applying one is the term naming the object and its input.     *)
(***************************************************************************)
EXTENDS Integers, Sequences, FiniteSets, TLC

----------------------------------------------------------------------------
(* Bounds of the model *)

MaxRows == 5
MaxN == 2
MaxH == 2
MaxRuns == 3
MaxLstmRows == 14
MaxPastMinutes == 1
MaxFutureMinutes == 1
MaxLstmTokens == 2

(* prices a store document may carry *)
Prices == {1, 2}

(* data.columns: the tokens of the pivoted frame *)
Tokens == {"WBNB"}

(* predict_random_forest.py: for future_minutes in [10, 60, 120], times 6;  *)
(* scaled to the model's row bound, ascending like the script's.            *)
BatchHorizons == <<1, 2, 3>>

----------------------------------------------------------------------------
(* Exact arithmetic on cells *)

NaN == <<0, 0>>

IsNaN(c) == c[2] = 0

Abs(n) == IF n < 0 THEN -n ELSE n

RECURSIVE GCD(_, _)
GCD(a, b) == IF b = 0 THEN a ELSE GCD(b, a % b)

Frac(n, d) ==
  LET g == GCD(Abs(n), d) IN
  IF d = 0 THEN NaN ELSE <<n \div g, d \div g>>

FAdd(a, b) == Frac(a[1] * b[2] + b[1] * a[2], a[2] * b[2])

FSub(a, b) == Frac(a[1] * b[2] - b[1] * a[2], a[2] * b[2])

(* a / b for b > 0 *)
FDiv(a, b) == Frac(a[1] * b[2], a[2] * b[1])

RECURSIVE FSum(_, _, _)
FSum(col, lo, hi) == IF lo > hi THEN <<0, 1>> ELSE FAdd(col[lo], FSum(col, lo + 1, hi))

----------------------------------------------------------------------------
(* pandas column primitives; a column is a sequence of cells *)

(* Series.shift(k) *)
Shift(col, k) ==
  [t \in 1..Len(col) |-> IF t - k >= 1 THEN col[t - k] ELSE NaN]

(* Series.rolling(window=w).mean(): min_periods = w *)
RollingMean(col, w) ==
  [t \in 1..Len(col) |->
     IF t >= w /\ \A j \in (t - w + 1)..t : ~IsNaN(col[j])
     THEN FDiv(FSum(col, t - w + 1, t), <<w, 1>>)
     ELSE NaN]

(* Series.pct_change() *)
PctChange(col) ==
  [t \in 1..Len(col) |->
     IF t = 1 \/ IsNaN(col[t]) \/ IsNaN(col[t - 1])
     THEN NaN
     ELSE FDiv(FSub(col[t], col[t - 1]), col[t - 1])]

(* fillna(method='ffill') as a shift: every cell takes its predecessor *)
FFillShift(col) ==
  [t \in 1..Len(col) |-> IF t = 1 THEN col[1] ELSE col[t - 1]]

(* fillna(method='ffill'): a NaN takes the last valid value before it *)
FFill(col) ==
  LET f[t \in 0..Len(col)] ==
        IF t = 0 THEN NaN
        ELSE IF ~IsNaN(col[t]) THEN col[t] ELSE f[t - 1]
  IN [t \in 1..Len(col) |-> f[t]]

(* fillna(method='bfill'): a NaN takes the next valid value after it *)
BFill(col) ==
  LET n == Len(col)
      f[k \in 0..n] ==
        IF k = 0 THEN NaN
        ELSE IF ~IsNaN(col[n - k + 1]) THEN col[n - k + 1] ELSE f[k - 1]
  IN [t \in 1..n |-> f[n - t + 1]]

----------------------------------------------------------------------------
(* create_features *)

(* the columns create_features builds for one token *)
TokenColumns(token, N) ==
  {<<token, "lag", k>> : k \in 1..N}
    \cup {<<token, "moving_average", 0>>, <<token, "rate_of_change", 0>>}

FeatureColumns(N) == UNION {TokenColumns(token, N) : token \in Tokens}

(* data[token] *)
PriceColumn(data, token) == [t \in 1..Len(data) |-> data[t].price[token]]

(* one engineered column, before the fill *)
RawColumn(data, c, N) ==
  LET col == PriceColumn(data, c[1]) IN
  CASE c[2] = "lag" -> Shift(col, c[3])
    [] c[2] = "moving_average" -> RollingMean(col, N)
    [] OTHER -> PctChange(col)

(* a frame from its index and its columns *)
Frame(index, cols, byCol) ==
  [t \in 1..Len(index) |->
     [ts |-> index[t], cols |-> [c \in cols |-> byCol[c][t]]]]

FrameIndex(frame) == [t \in 1..Len(frame) |-> frame[t].ts]

FrameColumn(frame, c) == [t \in 1..Len(frame) |-> frame[t].cols[c]]

FrameColumns(frame) == IF frame = <<>> THEN {} ELSE DOMAIN frame[1].cols

(* features.fillna(method='ffill').fillna(method='bfill') *)
FillMatrix(frame) ==
  Frame(FrameIndex(frame), FrameColumns(frame),
        [c \in FrameColumns(frame) |-> BFill(FFill(FrameColumn(frame, c)))])

(* pd.concat(all_lags, axis=1) of the per-token frames, on data.index *)
RawFeatures(data, N) ==
  Frame(FrameIndex(data), FeatureColumns(N),
        [c \in FeatureColumns(N) |-> RawColumn(data, c, N)])

(* frame.iloc[k:] *)
ILocFrom(frame, k) ==
  IF k >= Len(frame) THEN <<>> ELSE SubSeq(frame, k + 1, Len(frame))

(* create_features that also trims the warm-up rows *)
CreateFeaturesTrimmed(data, N) == ILocFrom(FillMatrix(RawFeatures(data, N)), N)

CreateFeatures(data, N) == FillMatrix(RawFeatures(data, N))

(* features.isnull().sum() is zero in every column *)
NoGaps(frame) ==
  \A t \in 1..Len(frame) : \A c \in DOMAIN frame[t].cols : ~IsNaN(frame[t].cols[c])

----------------------------------------------------------------------------
(* The model store (GridFS): versions of a file, oldest first *)

Filenames == {"model.pkl", "scaler.pkl"}

EmptyStore == [f \in Filenames |-> <<>>]

(* fs.put(blob, filename=f) *)
FsPut(store, f, blob) == [store EXCEPT ![f] = Append(@, blob)]

(* fs.get_last_version raises NoFile when f has no version *)
NoFile(store, f) == store[f] = <<>>

(* get_last_version returning the oldest version *)
GetFirstVersion(store, f) == store[f][1]

(* fs.get_last_version(filename=f).read() *)
GetLastVersion(store, f) == store[f][Len(store[f])]

(* predict's second read taking the oldest scaler *)
LoadScalerOldest(store) == GetFirstVersion(store, "scaler.pkl")

(* predict: binary_model = fs.get_last_version(filename='model.pkl').read() *)
LoadModel(store) == GetLastVersion(store, "model.pkl")

(* predict: binary_scaler = fs.get_last_version(filename='scaler.pkl').read() *)
LoadScaler(store) == GetLastVersion(store, "scaler.pkl")

(* train_model writing the scaler first *)
TrainWritesScalerFirst == <<"scaler.pkl", "model.pkl">>

(* train_model: the filenames of its two fs.put calls, in order *)
TrainWrites == <<"model.pkl", "scaler.pkl">>

(* pickle.dumps of the object a training run fitted *)
Blob(r) == [run |-> r]

(* the store after r complete training runs *)
StoreAfter(r) ==
  [f \in Filenames |-> [k \in 1..r |-> Blob(k)]]

----------------------------------------------------------------------------
(* Library objects applied *)

(* scaler.transform(row.values) *)
ScalerTransform(s, row) == [scaler |-> s.run, row |-> row.cols]

(* model.predict(X_new)[0] *)
ModelPredict(m, x) == [model |-> m.run, x |-> x]

----------------------------------------------------------------------------
VARIABLES
  (* one invocation of random_forest.py / predict_random_forest.py *)
  script, mode, cursor, argH, pc, fault, data, past_data_points, features,
  features_dropped, X_train, y_train, future_time_steps, horizon, model,
  scaler, i, predictions, last_prediction, out, trace,
  (* the model store and the runs against it *)
  fs, runs, trainer, predictor, completed,
  (* one invocation of lstm.py *)
  lstm

rfVars == <<script, mode, cursor, argH, pc, fault, data, past_data_points,
            features, features_dropped, X_train, y_train, future_time_steps,
            horizon, model, scaler, i, predictions, last_prediction, out, trace>>

runVars == <<trainer, predictor, completed>>

vars == <<rfVars, fs, runs, runVars, lstm>>

----------------------------------------------------------------------------
(* One invocation of a random-forest script *)

(* the resampled query result: one price per second, possibly none *)
Cursors == UNION {[1..n -> Prices] : n \in 0..MaxRows}

IdleTrainer == [pc |-> "idle", run |-> 0]

(* the processes that run predict against the store *)
Predictors == {"p1", "p2"}

IdlePredictor ==
  [p \in Predictors |->
     [pc |-> "idle", model |-> <<>>, scaler |-> <<>>, epoch |-> 0,
      overlap |-> FALSE]]

LstmOff == [pc |-> "off"]

RfInit ==
  /\ script \in {"cli", "batch"}
  /\ mode \in IF script = "cli" THEN {"train", "predict"} ELSE {"train"}
  /\ cursor \in Cursors
  /\ past_data_points \in 1..MaxN
  /\ argH \in IF script = "cli" /\ mode = "predict" THEN 0..MaxH ELSE {0}
  /\ pc = "start"
  /\ fault = ""
  /\ data = <<>>
  /\ features = <<>>
  /\ features_dropped = <<>>
  /\ X_train = <<>>
  /\ y_train = <<>>
  /\ future_time_steps = 0
  /\ horizon = 0
  /\ model = <<>>
  /\ scaler = <<>>
  /\ i = 0
  /\ predictions = <<>>
  /\ last_prediction = <<>>
  /\ out = <<>>
  /\ trace = <<>>

Init ==
  /\ RfInit
  /\ runs \in 0..1
  /\ fs = StoreAfter(runs)
  /\ trainer = IdleTrainer
  /\ predictor = IdlePredictor
  /\ completed = 0
  /\ lstm = LstmOff

RfFrame == UNCHANGED <<runVars, lstm>>

Raise(e) == pc' = "fault" /\ fault' = e

(* load_data_from_mongodb: an empty result has no 'price_point' column *)
Load ==
  /\ pc = "start"
  /\ trace' = Append(trace, "load")
  /\ IF cursor = <<>>
     THEN Raise("KeyError") /\ UNCHANGED data
     ELSE /\ data' = [t \in 1..Len(cursor) |->
                       [ts |-> t - 1, price |-> [k \in Tokens |-> <<cursor[t], 1>>]]]
          /\ pc' = "loaded"
          /\ UNCHANGED fault
  /\ UNCHANGED <<script, mode, cursor, argH, past_data_points, features,
                 features_dropped, X_train, y_train, future_time_steps, horizon,
                 model, scaler, i, predictions, last_prediction, out, fs, runs>>
  /\ RfFrame

(* features = create_features(data, past_data_points) *)
Engineer ==
  /\ pc = "loaded"
  /\ trace' = Append(trace, "engineer")
  /\ features' = CreateFeatures(data, past_data_points)
  /\ pc' = "engineered"
  /\ UNCHANGED <<script, mode, cursor, argH, fault, data, past_data_points,
                 features_dropped, X_train, y_train, future_time_steps, horizon,
                 model, scaler, i, predictions, last_prediction, out, fs, runs>>
  /\ RfFrame

(* what follows feature engineering: random_forest.py branches on --mode,   *)
(* predict_random_forest.py trains                                          *)
Dispatch(sc, m) == IF sc = "batch" THEN "train" ELSE m

(* a driver that predicts after every training *)
AfterTrainAlwaysPredict(sc) == "for"

(* what follows train_model: the batch driver's for loop, or the exit *)
AfterTrain(sc) == IF sc = "batch" THEN "for" ELSE "exit"

(* what follows predict: the batch driver prints, the CLI exits *)
AfterPredict(sc) == IF sc = "batch" THEN "print" ELSE "exit"

(* data['WBNB'] without the iloc *)
TargetValuesUntrimmed(d, N) ==
  [t \in 1..Len(d) |-> [ts |-> d[t].ts, value |-> d[t].price["WBNB"]]]

(* data['WBNB'].iloc[past_data_points:].values *)
TargetValues(d, N) ==
  LET col == [t \in 1..Len(d) |-> [ts |-> d[t].ts, value |-> d[t].price["WBNB"]]]
  IN ILocFrom(col, N)

(* train_model up to model.fit: fit_transform refuses an empty array, fit   *)
(* refuses X and y of different lengths                                     *)
TrainFit ==
  /\ pc = "engineered"
  /\ Dispatch(script, mode) = "train"
  /\ trace' = Append(trace, "train")
  /\ features_dropped' = ILocFrom(features, past_data_points)
  /\ IF features_dropped' = <<>>
     THEN Raise("ValueError") /\ UNCHANGED <<X_train, y_train, runs>>
     ELSE /\ X_train' = features_dropped'
          /\ y_train' = TargetValues(data, past_data_points)
          /\ IF Len(X_train') # Len(y_train')
             THEN Raise("ValueError") /\ UNCHANGED runs
             ELSE pc' = "put_model" /\ runs' = runs + 1 /\ UNCHANGED fault
  /\ UNCHANGED <<script, mode, cursor, argH, data, past_data_points, features,
                 future_time_steps, horizon, model, scaler, i, predictions,
                 last_prediction, out, fs>>
  /\ RfFrame

(* fs.put(binary_model, filename='model.pkl') *)
PutModel ==
  /\ pc = "put_model"
  /\ fs' = FsPut(fs, TrainWrites[1], Blob(runs))
  /\ pc' = "put_scaler"
  /\ UNCHANGED <<script, mode, cursor, argH, fault, data, past_data_points,
                 features, features_dropped, X_train, y_train, future_time_steps,
                 horizon, model, scaler, i, predictions, last_prediction, out,
                 trace, runs>>
  /\ RfFrame

(* fs.put(binary_scaler, filename='scaler.pkl') *)
PutScaler ==
  /\ pc = "put_scaler"
  /\ fs' = FsPut(fs, TrainWrites[2], Blob(runs))
  /\ pc' = AfterTrain(script)
  /\ UNCHANGED <<script, mode, cursor, argH, fault, data, past_data_points,
                 features, features_dropped, X_train, y_train, future_time_steps,
                 horizon, model, scaler, i, predictions, last_prediction, out,
                 trace, runs>>
  /\ RfFrame

(* random_forest.py, --mode predict: future_time_steps from the arguments *)
MainPredict ==
  /\ pc = "engineered"
  /\ Dispatch(script, mode) = "predict"
  /\ future_time_steps' = argH
  /\ pc' = "predict"
  /\ UNCHANGED <<script, mode, cursor, argH, fault, data, past_data_points,
                 features, features_dropped, X_train, y_train, horizon, model,
                 scaler, i, predictions, last_prediction, out, trace, fs, runs>>
  /\ RfFrame

(* predict_random_forest.py: for future_minutes in [10, 60, 120] *)
BatchFor ==
  /\ pc = "for"
  /\ IF horizon < Len(BatchHorizons)
     THEN /\ horizon' = horizon + 1
          /\ future_time_steps' = BatchHorizons[horizon + 1]
          /\ pc' = "predict"
     ELSE /\ pc' = "done"
          /\ UNCHANGED <<horizon, future_time_steps>>
  /\ UNCHANGED <<script, mode, cursor, argH, fault, data, past_data_points,
                 features, features_dropped, X_train, y_train, model, scaler, i,
                 predictions, last_prediction, out, trace, fs, runs>>
  /\ RfFrame

(* predict: fs.get_last_version(filename='model.pkl') *)
PredictGetModel ==
  /\ pc = "predict"
  /\ trace' = Append(trace, "predict")
  /\ IF NoFile(fs, "model.pkl")
     THEN Raise("NoFile") /\ UNCHANGED model
     ELSE /\ model' = <<LoadModel(fs)>>
          /\ pc' = "get_scaler"
          /\ UNCHANGED fault
  /\ UNCHANGED <<script, mode, cursor, argH, data, past_data_points, features,
                 features_dropped, X_train, y_train, future_time_steps, horizon,
                 scaler, i, predictions, last_prediction, out, fs, runs>>
  /\ RfFrame

(* predict: fs.get_last_version(filename='scaler.pkl'), then the loop's set-up *)
PredictGetScaler ==
  /\ pc = "get_scaler"
  /\ IF NoFile(fs, "scaler.pkl")
     THEN Raise("NoFile") /\ UNCHANGED <<scaler, predictions, i>>
     ELSE /\ scaler' = <<LoadScaler(fs)>>
          /\ predictions' = <<>>
          /\ i' = past_data_points
          /\ pc' = "loop"
          /\ UNCHANGED fault
  /\ UNCHANGED <<script, mode, cursor, argH, data, past_data_points, features,
                 features_dropped, X_train, y_train, future_time_steps, horizon,
                 model, last_prediction, out, trace, fs, runs>>
  /\ RfFrame

(* total_steps one row short *)
TotalStepsShort(f, H) == Len(f) - H - 1

(* total_steps = len(features) - future_time_steps *)
TotalSteps(f, H) == Len(f) - H

(* X_new taken from the row the horizon points at *)
XNewShifted(s, f, k, H) == ScalerTransform(s, f[k + H + 1])

(* X_new = scaler.transform(features.iloc[i:i+1].values) *)
XNew(s, f, k, H) == ScalerTransform(s, f[k + 1])

(* one iteration of predict's for loop *)
PredictIter ==
  /\ pc = "loop"
  /\ i < TotalSteps(features, future_time_steps)
  /\ predictions' =
       IF i + future_time_steps < Len(features)
       THEN Append(predictions,
                   [row |-> i,
                    value |-> ModelPredict(model[1],
                                XNew(scaler[1], features, i, future_time_steps))])
       ELSE predictions
  /\ i' = i + 1
  /\ UNCHANGED <<script, mode, cursor, argH, pc, fault, data, past_data_points,
                 features, features_dropped, X_train, y_train, future_time_steps,
                 horizon, model, scaler, last_prediction, out, trace, fs, runs>>
  /\ RfFrame

(* predictions[0] *)
FirstRecorded(p) == p[1]

(* predictions[-1] *)
LastRecorded(p) == p[Len(p)]

(* return predictions[-1]: IndexError on an empty list *)
PredictReturn ==
  /\ pc = "loop"
  /\ i >= TotalSteps(features, future_time_steps)
  /\ IF predictions = <<>>
     THEN Raise("IndexError") /\ UNCHANGED last_prediction
     ELSE /\ last_prediction' = <<LastRecorded(predictions)>>
          /\ pc' = AfterPredict(script)
          /\ UNCHANGED fault
  /\ UNCHANGED <<script, mode, cursor, argH, data, past_data_points, features,
                 features_dropped, X_train, y_train, future_time_steps, horizon,
                 model, scaler, i, predictions, out, trace, fs, runs>>
  /\ RfFrame

(* print(f"For {future_minutes} minutes ahead, the last prediction is: ...") *)
PrintPrediction ==
  /\ pc = "print"
  /\ trace' = Append(trace, "print")
  /\ out' = Append(out, [H |-> future_time_steps, value |-> last_prediction[1].value])
  /\ pc' = "for"
  /\ UNCHANGED <<script, mode, cursor, argH, fault, data, past_data_points,
                 features, features_dropped, X_train, y_train, future_time_steps,
                 horizon, model, scaler, i, predictions, last_prediction, fs, runs>>
  /\ RfFrame

(* the end of random_forest.py's main block *)
Exit ==
  /\ pc = "exit"
  /\ pc' = "done"
  /\ UNCHANGED <<script, mode, cursor, argH, fault, data, past_data_points,
                 features, features_dropped, X_train, y_train, future_time_steps,
                 horizon, model, scaler, i, predictions, last_prediction, out,
                 trace, fs, runs>>
  /\ RfFrame

Next ==
  \/ Load
  \/ Engineer
  \/ TrainFit
  \/ PutModel
  \/ PutScaler
  \/ MainPredict
  \/ BatchFor
  \/ PredictGetModel
  \/ PredictGetScaler
  \/ PredictIter
  \/ PredictReturn
  \/ PrintPrediction
  \/ Exit

Spec == Init /\ [][Next]_vars

----------------------------------------------------------------------------
(* Properties of one invocation (Spec) *)

Did(step) == \E k \in 1..Len(trace) : trace[k] = step

Count(step) == Cardinality({k \in 1..Len(trace) : trace[k] = step})

IsPrefix(s, t) == Len(s) <= Len(t) /\ \A k \in 1..Len(s) : s[k] = t[k]

Max(a, b) == IF a >= b THEN a ELSE b

(* predict has just returned a value *)
Returned == pc \in {"print", "exit"} /\ last_prediction # <<>>

(* 0-based row r of the Feature Matrix *)
FeatureRow(r) == features[r + 1]

(* the model's prediction for row r under the loaded pair *)
PredictionFor(r) ==
  ModelPredict(model[1], ScalerTransform(scaler[1], FeatureRow(r)))

(* C1, as stated: every horizon of one invocation returns the same value. *)
C1_SameValueForEveryHorizon ==
  \A a, b \in 1..Len(out) : out[a].value = out[b].value

(* C1, amended: the value returned for horizon H is the loaded model's      *)
(* prediction for feature row (row count - H - 1); the horizon picks the    *)
(* row and is no input of the model, so two horizons return the same value  *)
(* whenever those two rows hold the same features.                          *)
C1_ValueOfRowPickedByHorizon ==
  /\ Returned =>
       last_prediction[1].value =
         PredictionFor(Len(features) - future_time_steps - 1)
  /\ \A a \in 1..Len(out) :
       out[a].value = PredictionFor(Len(features) - out[a].H - 1)
  /\ \A a, b \in 1..Len(out) :
       FeatureRow(Len(features) - out[a].H - 1).cols
         = FeatureRow(Len(features) - out[b].H - 1).cols
       => out[a].value = out[b].value

(* two horizons answered from two rows with equal features *)
C1_Witness ==
  /\ Len(out) >= 2
  /\ out[1].H # out[2].H
  /\ out[1].value = out[2].value

(* C2: predict visits rows N, N+1, ... in ascending order below             *)
(* (row count - H); a prediction is recorded for row i only when            *)
(* i + H < row count; the value returned is the one recorded for the        *)
(* largest such i, so that on return N + H < row count, exactly             *)
(* (row count - H - N) predictions are recorded and the returned one is     *)
(* for row (row count - H - 1).                                             *)
C2_RowsVisitedAndReturned ==
  /\ pc = "loop" =>
       /\ past_data_points <= i
       /\ i <= Max(past_data_points, Len(features) - future_time_steps)
       /\ Len(predictions) = i - past_data_points
       /\ \A k \in 1..Len(predictions) :
            /\ predictions[k].row = past_data_points + k - 1
            /\ predictions[k].row + future_time_steps < Len(features)
  /\ Returned =>
       /\ past_data_points + future_time_steps < Len(features)
       /\ Len(predictions) = Len(features) - future_time_steps - past_data_points
       /\ last_prediction[1] = predictions[Len(predictions)]
       /\ last_prediction[1].row = Len(features) - future_time_steps - 1
       /\ \A k \in 1..Len(predictions) :
            predictions[k].row <= last_prediction[1].row

(* predict returned after recording several rows *)
C2_Witness == Returned /\ Len(predictions) >= 2

(* C3, as stated: create_features returns the matrix without its first N   *)
(* rows.                                                                    *)
C3_FeaturesTrimmedByBuilder ==
  Did("engineer") =>
    /\ Len(features) = Max(0, Len(data) - past_data_points)
    /\ FrameIndex(features) = FrameIndex(ILocFrom(data, past_data_points))

(* C3, amended: create_features returns one row per row of the Price        *)
(* Matrix, aligned 1:1 by timestamp with the untrimmed Price Matrix, and    *)
(* raises nothing whatever N is; the first N rows are dropped afterwards,   *)
(* by train_model, whose features_dropped has R - N rows (0 when N >= R)    *)
(* aligned with the Price Matrix trimmed of its first N rows.               *)
C3_FeaturesKeepEveryRow ==
  /\ Did("engineer") =>
       /\ Len(features) = Len(data)
       /\ FrameIndex(features) = FrameIndex(data)
  /\ (pc = "fault" /\ trace # <<>>) => trace[Len(trace)] # "engineer"
  /\ Did("train") =>
       /\ Len(features_dropped) = Max(0, Len(data) - past_data_points)
       /\ FrameIndex(features_dropped)
            = FrameIndex(ILocFrom(data, past_data_points))

(* a training step that dropped warm-up rows from a longer matrix *)
C3_Witness ==
  /\ Did("train")
  /\ Len(features_dropped) >= 1
  /\ Len(features) = Len(features_dropped) + past_data_points

(* C7, as stated: load, engineer, exactly one of train or predict, exit;    *)
(* never both a training and a prediction step, never two predictions.      *)
C7_OneTrainOrOnePredict ==
  /\ \E m \in {"train", "predict"} : IsPrefix(trace, <<"load", "engineer", m>>)
  /\ pc = "done" => Len(trace) = 3

(* C7, amended: random_forest.py performs load, engineer, then exactly one  *)
(* of train or predict, then exits; predict_random_forest.py performs load, *)
(* engineer, one train, then up to three predict steps, each followed by a  *)
(* print.                                                                   *)
C7_StepsInOrder ==
  /\ script = "cli" =>
       /\ IsPrefix(trace, <<"load", "engineer", mode>>)
       /\ pc = "done" => trace = <<"load", "engineer", mode>>
  /\ script = "batch" =>
       /\ IsPrefix(trace, <<"load", "engineer", "train", "predict", "print",
                            "predict", "print", "predict", "print">>)
       /\ pc = "done" => Len(trace) = 9

(* the batch driver after its training and its second prediction *)
C7_Witness ==
  /\ script = "batch"
  /\ Count("train") = 1
  /\ Count("predict") = 2

(* C8: on a Feature Matrix left without gaps by create_features' forward-   *)
(* then-backward fill, the same fill applied again changes nothing.         *)
C8_FillIdempotent ==
  (Did("engineer") /\ NoGaps(features)) => FillMatrix(features) = features

(* a gap-free Feature Matrix whose columns had gaps before the fill *)
C8_Witness ==
  /\ Did("engineer")
  /\ NoGaps(features)
  /\ ~NoGaps(RawFeatures(data, past_data_points))
  /\ Len(features) >= 3

(* C9: in train_model the training inputs and targets have the same number  *)
(* of samples, and the k-th feature row and the k-th target value both      *)
(* carry the timestamp of row N + k of the Price Matrix.                    *)
C9_InputsAlignedWithTargets ==
  (Did("train") /\ X_train # <<>>) =>
    /\ Len(X_train) = Len(y_train)
    /\ \A k \in 1..Len(X_train) :
         /\ X_train[k].ts = y_train[k].ts
         /\ X_train[k].ts = data[past_data_points + k].ts

(* a fit on several samples *)
C9_Witness == pc = "put_model" /\ Len(X_train) >= 2

(* the invocation is in, or has just left, a call of predict *)
InPredict == trace # <<>> /\ trace[Len(trace)] = "predict"

EnoughRows == past_data_points + future_time_steps < Len(features)

----------------------------------------------------------------------------
(* Training and prediction runs against the shared model store.  A run is  *)
(* one process executing train_model or predict; its steps are the calls   *)
(* on the store.  Of a prediction process, epoch (the training runs        *)
(* started when its run began) and overlap (a training run was under way   *)
(* at some moment of its run's load) are history fields.                   *)

RfIdle ==
  /\ script = "cli"
  /\ mode = "train"
  /\ cursor = <<>>
  /\ past_data_points = 1
  /\ argH = 0
  /\ pc = "start"
  /\ fault = ""
  /\ data = <<>>
  /\ features = <<>>
  /\ features_dropped = <<>>
  /\ X_train = <<>>
  /\ y_train = <<>>
  /\ future_time_steps = 0
  /\ horizon = 0
  /\ model = <<>>
  /\ scaler = <<>>
  /\ i = 0
  /\ predictions = <<>>
  /\ last_prediction = <<>>
  /\ out = <<>>
  /\ trace = <<>>

StoreInit ==
  /\ RfIdle
  /\ runs = 0
  /\ fs = EmptyStore
  /\ trainer = IdleTrainer
  /\ predictor = IdlePredictor
  /\ completed = 0
  /\ lstm = LstmOff

TrainerActive == trainer.pc \in {"put_model", "put_scaler"}

PredictorActive(p) == predictor[p].pc \in {"get_model", "get_scaler"}

(* no process but self is in the middle of a run *)
Alone(self) ==
  /\ self # "trainer" => ~TrainerActive
  /\ \A q \in Predictors \ {self} : ~PredictorActive(q)

(* train_model up to model.fit, in a new process *)
TrainStart ==
  /\ ~TrainerActive
  /\ runs < MaxRuns
  /\ runs' = runs + 1
  /\ trainer' = [pc |-> "put_model", run |-> runs + 1]
  /\ predictor' = [p \in Predictors |->
                     IF PredictorActive(p)
                     THEN [predictor[p] EXCEPT !.overlap = TRUE]
                     ELSE predictor[p]]
  /\ UNCHANGED <<fs, completed, rfVars, lstm>>

(* train_model: fs.put(binary_model, filename='model.pkl') *)
TrainPutModel ==
  /\ trainer.pc = "put_model"
  /\ fs' = FsPut(fs, TrainWrites[1], Blob(trainer.run))
  /\ trainer' = [trainer EXCEPT !.pc = "put_scaler"]
  /\ UNCHANGED <<runs, predictor, completed, rfVars, lstm>>

(* train_model: fs.put(binary_scaler, filename='scaler.pkl'), and return *)
TrainPutScaler ==
  /\ trainer.pc = "put_scaler"
  /\ fs' = FsPut(fs, TrainWrites[2], Blob(trainer.run))
  /\ trainer' = [trainer EXCEPT !.pc = "idle"]
  /\ completed' = trainer.run
  /\ UNCHANGED <<runs, predictor, rfVars, lstm>>

(* the training process dies between its two writes *)
TrainFail ==
  /\ trainer.pc = "put_scaler"
  /\ trainer' = [trainer EXCEPT !.pc = "failed"]
  /\ UNCHANGED <<fs, runs, predictor, completed, rfVars, lstm>>

(* predict up to its first read, in a new process *)
PredStart(p) ==
  /\ ~PredictorActive(p)
  /\ predictor' = [predictor EXCEPT ![p] =
                     [pc |-> "get_model", model |-> <<>>, scaler |-> <<>>,
                      epoch |-> runs, overlap |-> TrainerActive]]
  /\ UNCHANGED <<fs, runs, trainer, completed, rfVars, lstm>>

(* predict: the model read; NoFile ends the process *)
PredGetModel(p) ==
  /\ predictor[p].pc = "get_model"
  /\ predictor' = [predictor EXCEPT ![p] =
                     IF NoFile(fs, "model.pkl")
                     THEN [@ EXCEPT !.pc = "fault"]
                     ELSE [@ EXCEPT !.pc = "get_scaler",
                                    !.model = <<LoadModel(fs)>>]]
  /\ UNCHANGED <<fs, runs, trainer, completed, rfVars, lstm>>

(* predict: the scaler read; the loop and the return touch no store *)
PredGetScaler(p) ==
  /\ predictor[p].pc = "get_scaler"
  /\ predictor' = [predictor EXCEPT ![p] =
                     IF NoFile(fs, "scaler.pkl")
                     THEN [@ EXCEPT !.pc = "fault"]
                     ELSE [@ EXCEPT !.pc = "loaded",
                                    !.scaler = <<LoadScaler(fs)>>]]
  /\ UNCHANGED <<fs, runs, trainer, completed, rfVars, lstm>>

(* runs that do not overlap: a process steps only while no other process   *)
(* is in the middle of a run                                               *)
SeqNext ==
  \/ Alone("trainer") /\ TrainStart
  \/ Alone("trainer") /\ TrainPutModel
  \/ Alone("trainer") /\ TrainPutScaler
  \/ \E p \in Predictors : Alone(p) /\ PredStart(p)
  \/ \E p \in Predictors : Alone(p) /\ PredGetModel(p)
  \/ \E p \in Predictors : Alone(p) /\ PredGetScaler(p)

SpecSeq == StoreInit /\ [][SeqNext]_vars

(* no locking: any process steps at any time *)
ConcNext ==
  \/ TrainStart
  \/ TrainPutModel
  \/ TrainPutScaler
  \/ \E p \in Predictors : PredStart(p)
  \/ \E p \in Predictors : PredGetModel(p)
  \/ \E p \in Predictors : PredGetScaler(p)

SpecConc == StoreInit /\ [][ConcNext]_vars

(* runs that do not overlap, a training run may die between its writes *)
FailNext ==
  \/ Alone("trainer") /\ TrainStart
  \/ Alone("trainer") /\ TrainPutModel
  \/ Alone("trainer") /\ TrainPutScaler
  \/ Alone("trainer") /\ TrainFail
  \/ \E p \in Predictors : Alone(p) /\ PredStart(p)
  \/ \E p \in Predictors : Alone(p) /\ PredGetModel(p)
  \/ \E p \in Predictors : Alone(p) /\ PredGetScaler(p)

SpecFail == StoreInit /\ [][FailNext]_vars

(* p holds a model and a scaler of two different training runs *)
Mismatched(p) ==
  /\ predictor[p].pc = "loaded"
  /\ predictor[p].model[1].run # predictor[p].scaler[1].run

(* C4: with runs that do not overlap and do not fail, a prediction run     *)
(* loads the model and the scaler persisted by one training run, the most  *)
(* recent completed one, and no step of a prediction run changes the       *)
(* store.                                                                  *)
C4_SequentialRunsLoadLatestPair ==
  [][ /\ \A p \in Predictors :
           (predictor[p].pc # "loaded" /\ predictor'[p].pc = "loaded") =>
             /\ completed >= 1
             /\ predictor'[p].model = <<Blob(completed)>>
             /\ predictor'[p].scaler = <<Blob(completed)>>
      /\ predictor' # predictor => fs' = fs ]_vars

(* a prediction run after the second training run *)
C4_Witness ==
  \E p \in Predictors :
    /\ predictor[p].pc = "loaded"
    /\ completed >= 2
    /\ predictor[p].epoch = completed
    /\ predictor[p].model = <<Blob(completed)>>
    /\ predictor[p].scaler = <<Blob(completed)>>

(* C5: with no locking there is an interleaving in which the prediction    *)
(* run loads a model and a scaler of two different training runs (the      *)
(* witness); a prediction run holds such a pair only if a training run was *)
(* under way during its load.                                              *)
C5_MismatchOnlyByOverlap ==
  \A p \in Predictors : Mismatched(p) => predictor[p].overlap

(* a prediction run holds the model of one run and the scaler of another *)
C5_Witness ==
  \E p \in Predictors : Mismatched(p) /\ predictor[p].overlap

(* p's run began after the trainer's current run did *)
LaterPrediction(p) == predictor[p].epoch = trainer.run

(* C6, as stated: after a training run died between its writes, a later    *)
(* prediction run loads the pair the store holds.                          *)
C6_LaterPredictionLoadsThePair ==
  \A p \in Predictors :
    (trainer.pc = "failed" /\ LaterPrediction(p)) => predictor[p].pc # "fault"

(* C6, amended: train_model writes the model before the scaler; when the   *)
(* run dies between the writes the store holds the dead run's model and    *)
(* an earlier run's scaler or none; a later prediction run loads that      *)
(* pair unchecked when a scaler exists, and ends with NoFile at the scaler *)
(* read when none does.                                                    *)
C6_FailureBetweenWrites ==
  /\ trainer.pc \in {"put_scaler", "failed"} =>
       /\ ~NoFile(fs, "model.pkl")
       /\ GetLastVersion(fs, "model.pkl") = Blob(trainer.run)
       /\ \/ NoFile(fs, "scaler.pkl")
          \/ GetLastVersion(fs, "scaler.pkl").run < trainer.run
  /\ \A p \in Predictors :
       (trainer.pc = "failed" /\ LaterPrediction(p)) =>
         /\ predictor[p].pc = "loaded" =>
              /\ predictor[p].model = <<Blob(trainer.run)>>
              /\ predictor[p].scaler[1].run < trainer.run
         /\ predictor[p].pc = "fault" => NoFile(fs, "scaler.pkl")
         /\ (NoFile(fs, "scaler.pkl") /\ ~PredictorActive(p)) =>
              predictor[p].pc = "fault"

(* a prediction run holding the dead run's model and an older scaler *)
C6_Witness ==
  \E p \in Predictors :
    /\ trainer.pc = "failed"
    /\ LaterPrediction(p)
    /\ Mismatched(p)

----------------------------------------------------------------------------
(* One invocation of lstm.py.  The frame is R rows by C columns; a sample  *)
(* of prepare_dataset is the 0-based rows it reads.                        *)

(* future_time_steps = future_minutes * 6; look_back = past_minutes * 6 *)
StepsPerMinute == 6

(* per token: the price, its SMA, RSI, MACD and Signal columns *)
ColumnsPerToken == 5

(* Dense(1): the width of model.predict's output *)
OutputWidth == 1

(* return scaler, trainX, trainY, testX, testY *)
PreprocessReturns == 5

(* the names on the left of "= preprocess_data(...)" *)
UnpackTargets(m) == IF m = "test" THEN 5 ELSE 3

(* int(x * 0.8) for x >= 0 *)
TrainSize(n) == (n * 8) \div 10

(* prepare_dataset looping over range(len(data) - look_back) *)
PrepareDatasetNoHorizon(R, look_back, future_minutes) ==
  LET steps == future_minutes * StepsPerMinute
      n == Max(0, R - look_back)
  IN [k \in 1..n |->
        [first |-> k - 1,
         last |-> IF k - 1 + look_back <= R THEN k - 2 + look_back ELSE R - 1,
         target |-> k - 1 + look_back + steps]]

(* prepare_dataset: sample k reads rows k .. k+look_back-1 (a slice, cut   *)
(* at the frame's end) and the target at row k + look_back + steps         *)
PrepareDataset(R, look_back, future_minutes) ==
  LET steps == future_minutes * StepsPerMinute
      n == Max(0, R - look_back - steps)
  IN [k \in 1..n |->
        [first |-> k - 1,
         last |-> IF k - 1 + look_back <= R THEN k - 2 + look_back ELSE R - 1,
         target |-> k - 1 + look_back + steps]]

LstmModes == {"train", "predict", "test"}

LstmInit ==
  /\ RfIdle
  /\ runs = 0
  /\ fs = EmptyStore
  /\ trainer = IdleTrainer
  /\ predictor = IdlePredictor
  /\ completed = 0
  /\ \E m \in LstmModes, R \in 0..MaxLstmRows, K \in 1..MaxLstmTokens,
        pm \in 0..MaxPastMinutes, fm \in 0..MaxFutureMinutes,
        file \in BOOLEAN, tok \in BOOLEAN :
       lstm = [pc |-> "start", mode |-> m, result_rows |-> R, tokens |-> K,
               past_minutes |-> pm, future_minutes |-> fm,
               model_file |-> file, has_token |-> tok,
               look_back |-> pm * StepsPerMinute, rows |-> 0, cols |-> 0,
               samples |-> <<>>, train_size |-> 0, returned |-> 0,
               loaded_model |-> FALSE, fault |-> "", printed |-> "",
               saved |-> FALSE]

LstmFrame == UNCHANGED <<rfVars, fs, runs, runVars>>

LstmRaise(e) == [lstm EXCEPT !.pc = "fault", !.fault = e]

(* load_data_from_mongodb: an empty result has no 'price_point' column *)
LstmLoad ==
  /\ lstm.pc = "start"
  /\ lstm' = IF lstm.result_rows = 0
             THEN LstmRaise("KeyError")
             ELSE [lstm EXCEPT !.pc = IF lstm.mode = "train"
                                      THEN "preprocess" ELSE "load_model",
                               !.rows = lstm.result_rows,
                               !.cols = lstm.tokens * ColumnsPerToken]
  /\ LstmFrame

(* load_model('lstm_model.h5') *)
LstmLoadModel ==
  /\ lstm.pc = "load_model"
  /\ lstm' = IF lstm.model_file
             THEN [lstm EXCEPT !.pc = "preprocess", !.loaded_model = TRUE]
             ELSE LstmRaise("OSError")
  /\ LstmFrame

(* preprocess_data: the empty check, the scaler fit, prepare_dataset, the  *)
(* 80% split, the return                                                   *)
LstmPreprocess ==
  /\ lstm.pc = "preprocess"
  /\ LET X == PrepareDataset(lstm.rows, lstm.look_back, lstm.future_minutes) IN
     lstm' = IF lstm.rows = 0
             THEN LstmRaise("ValueError")
             ELSE IF X # <<>> /\ ~lstm.has_token
             THEN LstmRaise("KeyError")
             ELSE [lstm EXCEPT !.pc = "unpack",
                               !.samples = X,
                               !.train_size = TrainSize(Len(X)),
                               !.returned = PreprocessReturns]
  /\ LstmFrame

(* the tuple assignment that receives preprocess_data's return value *)
LstmUnpack ==
  /\ lstm.pc = "unpack"
  /\ lstm' = IF lstm.returned = UnpackTargets(lstm.mode)
             THEN [lstm EXCEPT !.pc = "final"]
             ELSE LstmRaise("ValueError")
  /\ LstmFrame

(* scaler.inverse_transform accepts only arrays as wide as the fitted frame *)
InverseTransformOk(width, cols) == width = cols

(* the mode's last step: fit and save, or predict, inverse-transform and   *)
(* print                                                                   *)
LstmFinal ==
  /\ lstm.pc = "final"
  /\ lstm' =
       CASE lstm.mode = "train" ->
              IF lstm.train_size = 0
              THEN LstmRaise("IndexError")
              ELSE [lstm EXCEPT !.pc = "done", !.saved = TRUE, !.model_file = TRUE]
         [] lstm.mode = "predict" ->
              IF lstm.train_size = 0
              THEN LstmRaise("IndexError")
              ELSE IF ~InverseTransformOk(OutputWidth, lstm.cols)
              THEN LstmRaise("ValueError")
              ELSE [lstm EXCEPT !.pc = "done", !.printed = "prediction"]
         [] OTHER ->
              IF Len(lstm.samples) - lstm.train_size = 0
                 \/ ~InverseTransformOk(OutputWidth, lstm.cols)
              THEN LstmRaise("ValueError")
              ELSE [lstm EXCEPT !.pc = "done", !.printed = "mse"]
  /\ LstmFrame

LstmNext ==
  \/ LstmLoad
  \/ LstmLoadModel
  \/ LstmPreprocess
  \/ LstmUnpack
  \/ LstmFinal

SpecLstm == LstmInit /\ [][LstmNext]_vars

(* the loaded frame yields samples for both the training and the held-out  *)
(* part, the target token is a column, and the saved model a mode reads    *)
(* exists                                                                  *)
LstmEnoughRows ==
  /\ lstm.result_rows - lstm.past_minutes * StepsPerMinute
       - lstm.future_minutes * StepsPerMinute >= 2
  /\ lstm.has_token
  /\ lstm.mode # "train" => lstm.model_file

(* C10: given a non-empty frame with enough rows, no mode of lstm.py ends  *)
(* with a fault before its final step: train saves the model, predict      *)
(* prints a prediction, test prints the mean squared error.                *)
C10_EveryModeReachesItsFinalStep ==
  LstmEnoughRows =>
    /\ lstm.pc # "fault"
    /\ lstm.pc = "done" =>
         CASE lstm.mode = "train" -> lstm.saved
           [] lstm.mode = "predict" -> lstm.printed = "prediction"
           [] OTHER -> lstm.printed = "mse"

(* preprocess_data has returned the samples of prepare_dataset *)
LstmPrepared == lstm.returned = PreprocessReturns

(* C12: prepare_dataset on a frame of R rows with look-back L and horizon  *)
(* steps F = future_minutes * 6 produces exactly max(0, R - L - F)         *)
(* samples; sample i has as input the L consecutive rows i .. i+L-1 and    *)
(* as target the row i + L + F, and every row it reads is within 0 .. R-1. *)
C12_SamplesWithinTheFrame ==
  LstmPrepared =>
    LET R == lstm.rows
        L == lstm.look_back
        F == lstm.future_minutes * StepsPerMinute
    IN /\ Len(lstm.samples) = Max(0, R - L - F)
       /\ \A k \in 1..Len(lstm.samples) :
            LET x == lstm.samples[k] IN
            /\ x.first = k - 1
            /\ x.last = k - 1 + L - 1
            /\ x.last - x.first + 1 = L
            /\ x.target = k - 1 + L + F
            /\ 0 <= x.first
            /\ x.last <= R - 1
            /\ 0 <= x.target
            /\ x.target <= R - 1

(* several samples, each with a look-back window and a horizon *)
C12_Witness ==
  /\ LstmPrepared
  /\ Len(lstm.samples) >= 2
  /\ lstm.look_back >= 1
  /\ lstm.future_minutes >= 1

====
